---- MODULE Spec2Model ----
(***************************************************************************)
(* instructor.auto_client.from_provider: resolution of a "provider/model"  *)
(* identifier into a native SDK client wrapped by the provider's adapter   *)
(* factory.                                                                *)
(*                                                                         *)
(* One call of from_provider is one behaviour.  Init draws the arguments   *)
(* of the call and the process environment (os.environ, the set of SDK     *)
(* packages that cannot be imported); Enter runs lines 113-125 (cache into *)
(* kwargs, split of the identifier); one action per branch of the          *)
(* if/elif chain of lines 127-558 runs that branch to its return or raise. *)
(*                                                                         *)
(* Python values are modelled as strings: None is the string None below,   *)
(* True is "True", a Mode member is its qualified name.  Dictionaries      *)
(* (kwargs, os.environ, the keyword arguments of a call) are functions     *)
(* from key strings to value strings.  An SDK constructor or an adapter    *)
(* factory is external: the model records the call it receives (callee and *)
(* keyword arguments) and lets it succeed, except that Python itself       *)
(* raises TypeError when a keyword is given both explicitly and in the     *)
(* splatted **kwargs.  A TLA+ string cannot hold a backquote: the          *)
(* backquotes of the source's messages are written as apostrophes.         *)
(***************************************************************************)
EXTENDS Integers, Sequences, FiniteSets, TLC

VARIABLES
    model,          \* argument: the identifier string
    async_client,   \* argument: bool
    cache,          \* argument: cache handle or None
    mode,           \* argument: Mode override or None
    kwargs,         \* the **kwargs dictionary (line 115 adds "cache" to it)
    environ,        \* os.environ
    missing,        \* SDK packages that are not importable in this process
    pc,             \* "entry", "dispatch", "done"
    provider,       \* line 118
    model_name,     \* line 118
    branch,         \* the branch of the if/elif chain that ran, or None
    outcome         \* what the call did: return or raise, and its effects

vars == <<model, async_client, cache, mode, kwargs, environ, missing,
          pc, provider, model_name, branch, outcome>>

-----------------------------------------------------------------------------
(* Bounds of the model                                                     *)

\* At most this many settings differ from the bare call in a default
\* environment: keyword options given, cache given, mode given,
\* environment variables set, SDK packages missing.
MaxSettings == 2

-----------------------------------------------------------------------------
(* Python values and string operations                                     *)

None == "None"

\* bool(v) for the values of the model: None and the empty string are falsy.
Truthy(v) == v /= None /\ v /= ""

EmptyDict == [k \in {} |-> ""]

Range(s) == {s[i] : i \in DOMAIN s}

\* s.find(c) + 1 for a one-character c: the first position of c, 0 if absent.
Find(s, c) ==
    IF \E i \in 1..Len(s) : SubSeq(s, i, i) = c
    THEN CHOOSE i \in 1..Len(s) :
            /\ SubSeq(s, i, i) = c
            /\ \A j \in 1..(i - 1) : SubSeq(s, j, j) /= c
    ELSE 0

\* The split that always yields two parts, as str.partition does: the
\* whole text and an empty rest when sep is absent.
Split1_always_two_parts(s, sep) ==
    LET i == Find(s, sep)
    IN  IF i = 0 THEN <<s, "">>
        ELSE <<SubSeq(s, 1, i - 1), SubSeq(s, i + 1, Len(s))>>

\* str.split(sep, 1): one part when sep is absent, else the text before the
\* first sep and everything after it.
Split1(s, sep) ==
    LET i == Find(s, sep)
    IN  IF i = 0 THEN <<s>>
        ELSE <<SubSeq(s, 1, i - 1), SubSeq(s, i + 1, Len(s))>>

UpperLetters == "ABCDEFGHIJKLMNOPQRSTUVWXYZ"
LowerLetters == "abcdefghijklmnopqrstuvwxyz"

LowerChar(c) ==
    LET i == Find(UpperLetters, c)
    IN  IF i = 0 THEN c ELSE SubSeq(LowerLetters, i, i)

\* str.lower() on ASCII text.
RECURSIVE Lower(_)
Lower(s) ==
    IF Len(s) = 0 THEN ""
    ELSE LowerChar(SubSeq(s, 1, 1)) \o Lower(SubSeq(s, 2, Len(s)))

\* t in s
Contains(s, t) ==
    \E i \in 0..(Len(s) - Len(t)) : SubSeq(s, i + 1, i + Len(t)) = t

\* ", ".join(repr(x) for x in xs)
RECURSIVE JoinRepr(_)
JoinRepr(xs) ==
    IF Len(xs) = 0 THEN ""
    ELSE IF Len(xs) = 1 THEN "'" \o xs[1] \o "'"
    ELSE "'" \o xs[1] \o "', " \o JoinRepr(Tail(xs))

\* str(xs) of a list of strings, as an f-string renders it.
ListRepr(xs) == "[" \o JoinRepr(xs) \o "]"

\* dict operations
Get(d, k, default) == IF k \in DOMAIN d THEN d[k] ELSE default
Without(d, ks) == [k \in DOMAIN d \ ks |-> d[k]]
Update(d, e) == [k \in DOMAIN d \cup DOMAIN e |->
                    IF k \in DOMAIN e THEN e[k] ELSE d[k]]

-----------------------------------------------------------------------------
(* The registry                                                            *)

\* The list without the token of the branch added last.
supported_providers_without_xai ==
    << "openai", "azure_openai", "anthropic", "google", "generative-ai",
       "vertexai", "mistral", "cohere", "perplexity", "groq", "writer",
       "bedrock", "cerebras", "fireworks", "ollama" >>

supported_providers ==
    << "openai", "azure_openai", "anthropic", "google", "generative-ai",
       "vertexai", "mistral", "cohere", "perplexity", "groq", "writer",
       "bedrock", "cerebras", "fireworks", "ollama", "xai" >>

-----------------------------------------------------------------------------
(* Outcomes                                                                *)

NoClient == [cls |-> "", args |-> EmptyDict]
NoCall == [factory |-> "", args |-> EmptyDict]

NoOutcome ==
    [kind |-> "", exc |-> "", msg |-> "", warnings |-> <<>>,
     client |-> NoClient, adapter |-> NoCall, events |-> <<>>]

\* raise exc(msg), after the events ev and the warnings ws
Raise(exc, msg, ev, ws) ==
    [kind |-> "raise", exc |-> exc, msg |-> msg, warnings |-> ws,
     client |-> NoClient, adapter |-> NoCall,
     events |-> ev \o <<"raise " \o exc>>]

FormatMessage ==
    "Model string must be in format \"provider/model-name\" " \o
    "(e.g. \"openai/gpt-4\" or \"anthropic/claude-3-sonnet\")"

UnsupportedMessage(p) ==
    "Unsupported provider: " \o p \o ". " \o
    "Supported providers are: " \o ListRepr(supported_providers)

-----------------------------------------------------------------------------
(* Imports, constructors and adapter calls                                 *)

\* An import statement of a branch: its text, and the SDK package without
\* which it raises ImportError ("" when it needs none).  'from instructor
\* import from_x' needs the package instructor/__init__.py tests before it
\* defines from_x.
Imp(text, pkg) == [text |-> text, pkg |-> pkg]

\* The position of the first import that fails, 0 when all succeed.
FirstMissing(stmts, miss) ==
    IF \E i \in 1..Len(stmts) : stmts[i].pkg \in miss
    THEN CHOOSE i \in 1..Len(stmts) :
            /\ stmts[i].pkg \in miss
            /\ \A j \in 1..(i - 1) : stmts[j].pkg \notin miss
    ELSE 0

\* The imports attempted, in order, up to the first that fails.
ImportEvents(stmts, miss) ==
    LET f == FirstMissing(stmts, miss)
        n == IF f = 0 THEN Len(stmts) ELSE f
    IN  [i \in 1..n |-> stmts[i].text]

Getenv(var) == "getenv " \o var

\* cls(args), the keywords given as a dictionary
New(cls, args) == [cls |-> cls, args |-> args]

\* return factory(client, explicit, splat), splat a splatted dictionary: a
\* keyword given twice is a TypeError, raised before the factory runs.
Return(factory, client, explicit, splat, ev, ws) ==
    IF DOMAIN explicit \cap DOMAIN splat /= {}
    THEN [kind |-> "raise", exc |-> "TypeError",
          msg |-> factory \o "() got multiple values for keyword argument",
          warnings |-> ws, client |-> client, adapter |-> NoCall,
          events |-> ev \o <<"raise TypeError">>]
    ELSE [kind |-> "return", exc |-> "", msg |-> "", warnings |-> ws,
          client |-> client,
          adapter |-> [factory |-> factory, args |-> Update(explicit, splat)],
          events |-> ev \o <<"call " \o factory>>]

\* mode if mode else default
ModeOr(md, default) == IF Truthy(md) THEN md ELSE default

\* The keyword arguments every branch but cohere and bedrock gives the
\* adapter explicitly, with use_async=True added by the genai and mistral
\* branches when async_client is set.
ModelArg(mn) == [model |-> mn]
ModelModeArgs(mn, md) == [model |-> mn, mode |-> md]
UseAsync(ac, args) == IF ac THEN Update([use_async |-> "True"], args) ELSE args

-----------------------------------------------------------------------------
(* The provider branches.  Each takes the locals it reads: model_name,     *)
(* async_client, mode, kwargs, os.environ, the missing packages, and the   *)
(* warnings emitted so far.                                                *)

OpenAIImportMessage ==
    "The openai package is required to use the OpenAI provider. " \o
    "Install it with 'pip install openai'."

OpenAIImports ==
    << Imp("import openai", "openai"),
       Imp("from instructor import from_openai", "") >>

OpenAIClient(ac) == IF ac THEN "openai.AsyncOpenAI" ELSE "openai.OpenAI"

Branch_openai(mn, ac, md, kw, env, miss, ws) ==
    LET ev == ImportEvents(OpenAIImports, miss)
    IN  IF FirstMissing(OpenAIImports, miss) /= 0
        THEN Raise("ConfigurationError", OpenAIImportMessage, ev, ws)
        ELSE LET client == New(OpenAIClient(ac), EmptyDict)
             IN  Return("from_openai", client,
                        ModelModeArgs(mn, ModeOr(md, "Mode.TOOLS")), kw,
                        ev \o <<"new " \o client.cls>>, ws)

AzureImportMessage ==
    "The openai package is required to use the Azure OpenAI provider. " \o
    "Install it with 'pip install openai'."

AzureKeyMessage ==
    "AZURE_OPENAI_API_KEY is not set. " \o
    "Set it with 'export AZURE_OPENAI_API_KEY=<your-api-key>' or pass it as kwarg api_key=<your-api-key>"

AzureEndpointMessage ==
    "AZURE_OPENAI_ENDPOINT is not set. " \o
    "Set it with 'export AZURE_OPENAI_ENDPOINT=<your-endpoint>' or pass it as kwarg azure_endpoint=<your-endpoint>"

AzureImports ==
    << Imp("import os", ""),
       Imp("from openai import AzureOpenAI, AsyncAzureOpenAI", "openai"),
       Imp("from instructor import from_openai", "") >>

AzureClient(ac) == IF ac THEN "openai.AsyncAzureOpenAI" ELSE "openai.AzureOpenAI"

Branch_azure_openai(mn, ac, md, kw, env, miss, ws) ==
    LET ev0 == ImportEvents(AzureImports, miss)
        \* kwargs.pop(key, os.environ.get(VAR)): the default is evaluated
        \* whether or not the key is present
        api_key == Get(kw, "api_key", Get(env, "AZURE_OPENAI_API_KEY", None))
        azure_endpoint ==
            Get(kw, "azure_endpoint", Get(env, "AZURE_OPENAI_ENDPOINT", None))
        api_version == Get(kw, "api_version", "2024-02-01")
        kw1 == Without(kw, {"api_key", "azure_endpoint", "api_version"})
        ev == ev0 \o <<Getenv("AZURE_OPENAI_API_KEY"),
                       Getenv("AZURE_OPENAI_ENDPOINT")>>
    IN  IF FirstMissing(AzureImports, miss) /= 0
        THEN Raise("ConfigurationError", AzureImportMessage, ev0, ws)
        ELSE IF ~Truthy(api_key)
        THEN Raise("ConfigurationError", AzureKeyMessage, ev, ws)
        ELSE IF ~Truthy(azure_endpoint)
        THEN Raise("ConfigurationError", AzureEndpointMessage, ev, ws)
        ELSE LET client ==
                    New(AzureClient(ac),
                        [api_key |-> api_key, api_version |-> api_version,
                         azure_endpoint |-> azure_endpoint])
             IN  Return("from_openai", client,
                        ModelModeArgs(mn, ModeOr(md, "Mode.TOOLS")), kw1,
                        ev \o <<"new " \o client.cls>>, ws)

AnthropicImportMessage ==
    "The anthropic package is required to use the Anthropic provider. " \o
    "Install it with 'pip install anthropic'."

AnthropicImports ==
    << Imp("import anthropic", "anthropic"),
       Imp("from instructor import from_anthropic", "anthropic") >>

AnthropicClient(ac) ==
    IF ac THEN "anthropic.AsyncAnthropic" ELSE "anthropic.Anthropic"

Branch_anthropic(mn, ac, md, kw, env, miss, ws) ==
    LET ev == ImportEvents(AnthropicImports, miss)
        max_tokens == Get(kw, "max_tokens", "4096")
        kw1 == Without(kw, {"max_tokens"})
    IN  IF FirstMissing(AnthropicImports, miss) /= 0
        THEN Raise("ImportError", AnthropicImportMessage, ev, ws)
        ELSE LET client == New(AnthropicClient(ac), EmptyDict)
             IN  Return("from_anthropic", client,
                        [model |-> mn,
                         mode |-> ModeOr(md, "Mode.ANTHROPIC_TOOLS"),
                         max_tokens |-> max_tokens],
                        kw1, ev \o <<"new " \o client.cls>>, ws)

GoogleImportMessage ==
    "The google-genai package is required to use the Google provider. " \o
    "Install it with 'pip install google-genai'."

GoogleImports ==
    << Imp("import google.genai as genai", "google.genai"),
       Imp("from instructor import from_genai", "google.genai"),
       Imp("import os", "") >>

\* The keys the google branch moves from kwargs to the native client.
GoogleClientKeys ==
    {"debug_config", "http_options", "credentials", "project", "location"}

Branch_google(mn, ac, md, kw, env, miss, ws) ==
    LET ev0 == ImportEvents(GoogleImports, miss)
        vertexai_flag == Get(kw, "vertexai", "False")
        api_key == Get(kw, "api_key", Get(env, "GOOGLE_API_KEY", None))
        client_kwargs == [k \in DOMAIN kw \cap GoogleClientKeys |-> kw[k]]
        kw1 == Without(kw, {"vertexai", "api_key"} \cup GoogleClientKeys)
        ev == ev0 \o <<Getenv("GOOGLE_API_KEY")>>
    IN  IF FirstMissing(GoogleImports, miss) /= 0
        THEN Raise("ImportError", GoogleImportMessage, ev0, ws)
        ELSE LET client ==
                    New("google.genai.Client",
                        Update([vertexai |-> vertexai_flag, api_key |-> api_key],
                               client_kwargs))
             IN  Return("from_genai", client, UseAsync(ac, ModelArg(mn)), kw1,
                        ev \o <<"new " \o client.cls>>, ws)

MistralImportMessage ==
    "The mistralai package is required to use the Mistral provider. " \o
    "Install it with 'pip install mistralai'."

MistralKeyMessage ==
    "MISTRAL_API_KEY is not set. " \o
    "Set it with 'export MISTRAL_API_KEY=<your-api-key>'."

MistralImports ==
    << Imp("from mistralai import Mistral", "mistralai"),
       Imp("from instructor import from_mistral", "mistralai"),
       Imp("import os", "") >>

\* The mistral branch with the client constructed before the key is tested.
Branch_mistral_builds_first(mn, ac, md, kw, env, miss, ws) ==
    LET ev0 == ImportEvents(MistralImports, miss)
        client == New("mistralai.Mistral",
                      [api_key |-> Get(env, "MISTRAL_API_KEY", None)])
        ev1 == ev0 \o <<Getenv("MISTRAL_API_KEY"), "new " \o client.cls,
                        Getenv("MISTRAL_API_KEY")>>
    IN  IF FirstMissing(MistralImports, miss) /= 0
        THEN Raise("ImportError", MistralImportMessage, ev0, ws)
        ELSE IF Truthy(Get(env, "MISTRAL_API_KEY", None))
        THEN Return("from_mistral", client, UseAsync(ac, ModelArg(mn)), kw,
                    ev1, ws)
        ELSE [kind |-> "raise", exc |-> "ValueError",
              msg |-> MistralKeyMessage, warnings |-> ws, client |-> client,
              adapter |-> NoCall, events |-> ev1 \o <<"raise ValueError">>]

Branch_mistral(mn, ac, md, kw, env, miss, ws) ==
    LET ev0 == ImportEvents(MistralImports, miss)
        ev1 == ev0 \o <<Getenv("MISTRAL_API_KEY")>>
    IN  IF FirstMissing(MistralImports, miss) /= 0
        THEN Raise("ImportError", MistralImportMessage, ev0, ws)
        ELSE IF Truthy(Get(env, "MISTRAL_API_KEY", None))
        THEN LET client ==
                    New("mistralai.Mistral",
                        [api_key |-> Get(env, "MISTRAL_API_KEY", None)])
             IN  Return("from_mistral", client, UseAsync(ac, ModelArg(mn)), kw,
                        ev1 \o <<Getenv("MISTRAL_API_KEY"),
                                 "new " \o client.cls>>, ws)
        ELSE Raise("ValueError", MistralKeyMessage, ev1, ws)

CohereImportMessage ==
    "The cohere package is required to use the Cohere provider. " \o
    "Install it with 'pip install cohere'."

CohereImports ==
    << Imp("import cohere", "cohere"),
       Imp("from instructor import from_cohere", "cohere") >>

CohereClient(ac) == IF ac THEN "cohere.AsyncClient" ELSE "cohere.Client"

Branch_cohere(mn, ac, md, kw, env, miss, ws) ==
    LET ev == ImportEvents(CohereImports, miss)
    IN  IF FirstMissing(CohereImports, miss) /= 0
        THEN Raise("ImportError", CohereImportMessage, ev, ws)
        ELSE LET client == New(CohereClient(ac), EmptyDict)
             IN  Return("from_cohere", client, EmptyDict, kw,
                        ev \o <<"new " \o client.cls>>, ws)

PerplexityImportMessage ==
    "The openai package is required to use the Perplexity provider. " \o
    "Install it with 'pip install openai'."

PerplexityKeyMessage ==
    "PERPLEXITY_API_KEY is not set. " \o
    "Set it with 'export PERPLEXITY_API_KEY=<your-api-key>' or pass it as a kwarg api_key=<your-api-key>"

PerplexityImports ==
    << Imp("import openai", "openai"),
       Imp("from instructor import from_perplexity", "openai"),
       Imp("import os", "") >>

Branch_perplexity(mn, ac, md, kw, env, miss, ws) ==
    LET ev0 == ImportEvents(PerplexityImports, miss)
        ev1 == ev0 \o <<Getenv("PERPLEXITY_API_KEY")>>
        fromEnv == Truthy(Get(env, "PERPLEXITY_API_KEY", None))
        fromKw == Truthy(Get(kw, "api_key", None))
        api_key == IF fromEnv THEN Get(env, "PERPLEXITY_API_KEY", None)
                   ELSE Get(kw, "api_key", None)
        ev == IF fromEnv THEN ev1 \o <<Getenv("PERPLEXITY_API_KEY")>> ELSE ev1
    IN  IF FirstMissing(PerplexityImports, miss) /= 0
        THEN Raise("ImportError", PerplexityImportMessage, ev0, ws)
        ELSE IF ~fromEnv /\ ~fromKw
        THEN Raise("ValueError", PerplexityKeyMessage, ev1, ws)
        ELSE LET client ==
                    New(OpenAIClient(ac),
                        [api_key |-> api_key,
                         base_url |-> "https://api.perplexity.ai"])
             IN  Return("from_perplexity", client, ModelArg(mn), kw,
                        ev \o <<"new " \o client.cls>>, ws)

\* A branch that imports, constructs the client without arguments and
\* returns factory(client, model=model_name, kwargs): groq, writer,
\* cerebras, fireworks.
PlainBranch(imports, message, cls, factory, mn, kw, miss, ws) ==
    LET ev == ImportEvents(imports, miss)
    IN  IF FirstMissing(imports, miss) /= 0
        THEN Raise("ImportError", message, ev, ws)
        ELSE Return(factory, New(cls, EmptyDict), ModelArg(mn), kw,
                    ev \o <<"new " \o cls>>, ws)

GroqImportMessage ==
    "The groq package is required to use the Groq provider. " \o
    "Install it with 'pip install groq'."

GroqImports ==
    << Imp("import groq", "groq"),
       Imp("from instructor import from_groq", "groq") >>

Branch_groq(mn, ac, md, kw, env, miss, ws) ==
    PlainBranch(GroqImports, GroqImportMessage,
                IF ac THEN "groq.AsyncGroq" ELSE "groq.Groq",
                "from_groq", mn, kw, miss, ws)

WriterImportMessage ==
    "The writerai package is required to use the Writer provider. " \o
    "Install it with 'pip install writer-sdk'."

WriterImports ==
    << Imp("from writerai import AsyncWriter, Writer", "writerai"),
       Imp("from instructor import from_writer", "writerai") >>

Branch_writer(mn, ac, md, kw, env, miss, ws) ==
    PlainBranch(WriterImports, WriterImportMessage,
                IF ac THEN "writerai.AsyncWriter" ELSE "writerai.Writer",
                "from_writer", mn, kw, miss, ws)

BedrockImportMessage ==
    "The boto3 package is required to use the AWS Bedrock provider. " \o
    "Install it with 'pip install boto3'."

BedrockImports ==
    << Imp("import boto3", "boto3"),
       Imp("from instructor import from_bedrock", "boto3") >>

Branch_bedrock(mn, ac, md, kw, env, miss, ws) ==
    LET ev == ImportEvents(BedrockImports, miss)
    IN  IF FirstMissing(BedrockImports, miss) /= 0
        THEN Raise("ImportError", BedrockImportMessage, ev, ws)
        ELSE LET client ==
                    New("boto3.client", [service_name |-> "bedrock-runtime"])
             IN  Return("from_bedrock", client, EmptyDict, kw,
                        ev \o <<"new " \o client.cls>>, ws)

CerebrasImportMessage ==
    "The cerebras package is required to use the Cerebras provider. " \o
    "Install it with 'pip install cerebras'."

CerebrasImports ==
    << Imp("from cerebras.cloud.sdk import AsyncCerebras, Cerebras", "cerebras"),
       Imp("from instructor import from_cerebras", "cerebras") >>

Branch_cerebras(mn, ac, md, kw, env, miss, ws) ==
    PlainBranch(CerebrasImports, CerebrasImportMessage,
                IF ac THEN "cerebras.cloud.sdk.AsyncCerebras"
                      ELSE "cerebras.cloud.sdk.Cerebras",
                "from_cerebras", mn, kw, miss, ws)

FireworksImportMessage ==
    "The fireworks-ai package is required to use the Fireworks provider. " \o
    "Install it with 'pip install fireworks-ai'."

FireworksImports ==
    << Imp("from fireworks.client import AsyncFireworks, Fireworks", "fireworks"),
       Imp("from instructor import from_fireworks", "fireworks") >>

Branch_fireworks(mn, ac, md, kw, env, miss, ws) ==
    PlainBranch(FireworksImports, FireworksImportMessage,
                IF ac THEN "fireworks.client.AsyncFireworks"
                      ELSE "fireworks.client.Fireworks",
                "from_fireworks", mn, kw, miss, ws)

DeprecationWarning(message) ==
    [category |-> "DeprecationWarning", message |-> message]

VertexAIWarning ==
    DeprecationWarning(
        "The 'vertexai' provider is deprecated. Use 'google' provider with vertexai=True instead. " \o
        "Example: instructor.from_provider('google/gemini-pro', vertexai=True)")

VertexAIImportMessage ==
    "The google-genai package is required to use the VertexAI provider. " \o
    "Install it with 'pip install google-genai'."

VertexAIProjectMessage ==
    "Project ID is required for Vertex AI. " \o
    "Set it with 'export GOOGLE_CLOUD_PROJECT=<your-project-id>' " \o
    "or pass it as kwarg project=<your-project-id>"

VertexAIImports ==
    << Imp("import google.genai as genai", "google.genai"),
       Imp("from instructor import from_genai", "google.genai"),
       Imp("import os", "") >>

Branch_vertexai(mn, ac, md, kw, env, miss, ws0) ==
    LET ws == ws0 \o <<VertexAIWarning>>
        ev0 == <<"warn DeprecationWarning">> \o ImportEvents(VertexAIImports, miss)
        project == Get(kw, "project", Get(env, "GOOGLE_CLOUD_PROJECT", None))
        location ==
            Get(kw, "location", Get(env, "GOOGLE_CLOUD_LOCATION", "us-central1"))
        kw1 == Without(kw, {"project", "location"})
        ev == ev0 \o <<Getenv("GOOGLE_CLOUD_PROJECT"),
                       Getenv("GOOGLE_CLOUD_LOCATION")>>
        explicit == [vertexai |-> "True", project |-> project,
                     location |-> location]
    IN  IF FirstMissing(VertexAIImports, miss) /= 0
        THEN Raise("ImportError", VertexAIImportMessage, ev0, ws)
        ELSE IF ~Truthy(project)
        THEN Raise("ValueError", VertexAIProjectMessage, ev, ws)
        \* genai.Client(vertexai=True, project=, location=, and kwargs splatted)
        ELSE IF DOMAIN explicit \cap DOMAIN kw1 /= {}
        THEN Raise("TypeError",
                   "google.genai.Client() got multiple values for keyword argument",
                   ev, ws)
        ELSE LET client == New("google.genai.Client", Update(explicit, kw1))
                 \* kwargs["model"] = model_name
                 kw2 == Update(kw1, ModelArg(mn))
             IN  Return("from_genai", client, UseAsync(ac, EmptyDict), kw2,
                        ev \o <<"new " \o client.cls>>, ws)

GenerativeAIWarning ==
    DeprecationWarning(
        "The 'generative-ai' provider is deprecated. Use 'google' provider instead. " \o
        "Example: instructor.from_provider('google/gemini-pro')")

GenerativeAIImportMessage ==
    "The google-genai package is required to use the Google GenAI provider. " \o
    "Install it with 'pip install google-genai'."

GenerativeAIImports ==
    << Imp("from google import genai", "google.genai"),
       Imp("from instructor import from_genai", "google.genai"),
       Imp("import os", "") >>

Branch_generative_ai(mn, ac, md, kw, env, miss, ws0) ==
    LET ws == ws0 \o <<GenerativeAIWarning>>
        ev0 == <<"warn DeprecationWarning">> \o
               ImportEvents(GenerativeAIImports, miss)
        api_key == Get(kw, "api_key", Get(env, "GOOGLE_API_KEY", None))
        kw1 == Without(kw, {"api_key"})
        ev == ev0 \o <<Getenv("GOOGLE_API_KEY")>>
    IN  IF FirstMissing(GenerativeAIImports, miss) /= 0
        THEN Raise("ImportError", GenerativeAIImportMessage, ev0, ws)
        ELSE LET client ==
                    New("google.genai.Client",
                        [vertexai |-> "False", api_key |-> api_key])
             IN  Return("from_genai", client, UseAsync(ac, ModelArg(mn)), kw1,
                        ev \o <<"new " \o client.cls>>, ws)

OllamaImportMessage ==
    "The openai package is required to use the Ollama provider. " \o
    "Install it with 'pip install openai'."

\* Models that support function calling (tools mode)
tool_capable_models ==
    { "llama3.1", "llama3.2", "llama4", "mistral-nemo", "firefunction-v2",
      "command-r-plus", "qwen2.5", "qwen2.5-coder", "qwen3", "devstral" }

\* The match without the lower-casing of the model name.
supports_tools_case_sensitive(mn) ==
    \E capable_model \in tool_capable_models : Contains(mn, capable_model)

\* any(capable_model in model_name.lower() for capable_model in ...)
supports_tools(mn) ==
    \E capable_model \in tool_capable_models : Contains(Lower(mn), capable_model)

default_mode(mn) == IF supports_tools(mn) THEN "Mode.TOOLS" ELSE "Mode.JSON"

Branch_ollama(mn, ac, md, kw, env, miss, ws) ==
    LET ev == ImportEvents(OpenAIImports, miss)
        base_url == Get(kw, "base_url", "http://localhost:11434/v1")
        api_key == Get(kw, "api_key", "ollama")
        kw1 == Without(kw, {"base_url", "api_key"})
    IN  IF FirstMissing(OpenAIImports, miss) /= 0
        THEN Raise("ConfigurationError", OllamaImportMessage, ev, ws)
        ELSE LET client ==
                    New(OpenAIClient(ac),
                        [base_url |-> base_url, api_key |-> api_key])
             IN  Return("from_openai", client,
                        ModelModeArgs(mn, ModeOr(md, default_mode(mn))), kw1,
                        ev \o <<"new " \o client.cls>>, ws)

XAIImportMessage ==
    "The xai-sdk package is required to use the xAI provider. " \o
    "Install it with 'pip install xai-sdk'."

XAIImports ==
    << Imp("from xai_sdk.sync.client import Client as SyncClient", "xai_sdk"),
       Imp("from xai_sdk.aio.client import Client as AsyncClient", "xai_sdk"),
       Imp("from instructor import from_xai", "xai_sdk") >>

Branch_xai(mn, ac, md, kw, env, miss, ws) ==
    LET ev == ImportEvents(XAIImports, miss)
    IN  IF FirstMissing(XAIImports, miss) /= 0
        THEN Raise("ConfigurationError", XAIImportMessage, ev, ws)
        ELSE LET client ==
                    New(IF ac THEN "xai_sdk.aio.client.Client"
                              ELSE "xai_sdk.sync.client.Client", EmptyDict)
             IN  Return("from_xai", client,
                        ModelModeArgs(mn, ModeOr(md, "Mode.JSON")), kw,
                        ev \o <<"new " \o client.cls>>, ws)

Branch_else(p) ==
    Raise("ConfigurationError", UnsupportedMessage(p), <<>>, <<>>)

-----------------------------------------------------------------------------
(* from_provider                                                           *)

\* The if/elif chain of lines 127-552: the branch a provider token takes.
Routine(p) ==
    IF p = "openai" THEN "openai"
    ELSE IF p = "azure_openai" THEN "azure_openai"
    ELSE IF p = "anthropic" THEN "anthropic"
    ELSE IF p = "google" THEN "google"
    ELSE IF p = "mistral" THEN "mistral"
    ELSE IF p = "cohere" THEN "cohere"
    ELSE IF p = "perplexity" THEN "perplexity"
    ELSE IF p = "groq" THEN "groq"
    ELSE IF p = "writer" THEN "writer"
    ELSE IF p = "bedrock" THEN "bedrock"
    ELSE IF p = "cerebras" THEN "cerebras"
    ELSE IF p = "fireworks" THEN "fireworks"
    ELSE IF p = "vertexai" THEN "vertexai"
    ELSE IF p = "generative-ai" THEN "generative-ai"
    ELSE IF p = "ollama" THEN "ollama"
    ELSE IF p = "xai" THEN "xai"
    ELSE "else"

\* Lines 113-115: cache joins kwargs when it is given.
WithCache(c, kw) == IF c /= None THEN Update(kw, [cache |-> c]) ELSE kw

\* The whole call as a function of its arguments and of the environment.
FromProvider(m, ac, c, md, kw0, env, miss) ==
    LET kw == WithCache(c, kw0)
        parts == Split1(m, "/")
    IN  IF Len(parts) /= 2
        THEN Raise("ConfigurationError", FormatMessage, <<>>, <<>>)
        ELSE LET p == parts[1]
                 mn == parts[2]
                 r == Routine(p)
             IN  CASE r = "openai" -> Branch_openai(mn, ac, md, kw, env, miss, <<>>)
                   [] r = "azure_openai" -> Branch_azure_openai(mn, ac, md, kw, env, miss, <<>>)
                   [] r = "anthropic" -> Branch_anthropic(mn, ac, md, kw, env, miss, <<>>)
                   [] r = "google" -> Branch_google(mn, ac, md, kw, env, miss, <<>>)
                   [] r = "mistral" -> Branch_mistral(mn, ac, md, kw, env, miss, <<>>)
                   [] r = "cohere" -> Branch_cohere(mn, ac, md, kw, env, miss, <<>>)
                   [] r = "perplexity" -> Branch_perplexity(mn, ac, md, kw, env, miss, <<>>)
                   [] r = "groq" -> Branch_groq(mn, ac, md, kw, env, miss, <<>>)
                   [] r = "writer" -> Branch_writer(mn, ac, md, kw, env, miss, <<>>)
                   [] r = "bedrock" -> Branch_bedrock(mn, ac, md, kw, env, miss, <<>>)
                   [] r = "cerebras" -> Branch_cerebras(mn, ac, md, kw, env, miss, <<>>)
                   [] r = "fireworks" -> Branch_fireworks(mn, ac, md, kw, env, miss, <<>>)
                   [] r = "vertexai" -> Branch_vertexai(mn, ac, md, kw, env, miss, <<>>)
                   [] r = "generative-ai" -> Branch_generative_ai(mn, ac, md, kw, env, miss, <<>>)
                   [] r = "ollama" -> Branch_ollama(mn, ac, md, kw, env, miss, <<>>)
                   [] r = "xai" -> Branch_xai(mn, ac, md, kw, env, miss, <<>>)
                   [] OTHER -> Branch_else(p)

-----------------------------------------------------------------------------
(* The calls and environments explored                                     *)

\* One identifier per registered token, the ollama model names that
\* exercise the capability heuristic, and the malformed or unregistered
\* identifiers.
Identifiers ==
    { "openai/gpt-4", "azure_openai/gpt-4", "anthropic/claude-3-sonnet",
      "google/gemini-pro", "generative-ai/gemini-pro", "vertexai/gemini-pro",
      "mistral/mistral-large", "cohere/command-r", "perplexity/sonar",
      "groq/llama3-8b", "writer/palmyra-x", "bedrock/titan",
      "cerebras/llama3", "fireworks/mixtral", "xai/grok-3",
      "ollama/llama3.1", "ollama/some-unlisted-model", "ollama/Qwen3:8B",
      "openai/ft:gpt-4/v2",
      "gpt-4", "openai/", "/gpt-4", "/", "foobar/x", "OpenAI/gpt-4" }

KwargKeys ==
    { "api_key", "azure_endpoint", "api_version", "project", "location",
      "vertexai", "base_url", "max_tokens", "timeout" }

\* The value the caller gives for a keyword option.
KwargValue(k) ==
    CASE k = "api_key" -> "sk-explicit"
      [] k = "azure_endpoint" -> "https://explicit.example"
      [] k = "api_version" -> "2024-06-01"
      [] k = "project" -> "explicit-project"
      [] k = "location" -> "europe-west4"
      [] k = "vertexai" -> "True"
      [] k = "base_url" -> "http://remote:11434/v1"
      [] k = "max_tokens" -> "1024"
      [] OTHER -> "30"

EnvVars ==
    { "AZURE_OPENAI_API_KEY", "AZURE_OPENAI_ENDPOINT", "MISTRAL_API_KEY",
      "PERPLEXITY_API_KEY", "GOOGLE_API_KEY", "GOOGLE_CLOUD_PROJECT",
      "GOOGLE_CLOUD_LOCATION" }

\* The value an environment variable holds when it is set.
EnvValue(v) == "$" \o v

Packages ==
    { "openai", "anthropic", "google.genai", "mistralai", "cohere", "groq",
      "writerai", "boto3", "cerebras", "fireworks", "xai_sdk" }

TheCache == "AutoCache#1"
TheMode == "Mode.MD_JSON"

Setting(tag, name) == [tag |-> tag, name |-> name]

Settings ==
    {Setting("kwarg", k) : k \in KwargKeys} \cup
    {Setting("env", v) : v \in EnvVars} \cup
    {Setting("missing", q) : q \in Packages} \cup
    {Setting("cache", ""), Setting("mode", "")}

\* The subsets of S of at most n elements.
RECURSIVE UpTo(_, _)
UpTo(S, n) ==
    IF n = 0 THEN {{}}
    ELSE LET R == UpTo(S, n - 1)
         IN  R \cup {r \cup {x} : r \in R, x \in S}

Named(S, tag) == {x.name : x \in {y \in S : y.tag = tag}}

-----------------------------------------------------------------------------
(* The state machine                                                       *)

Init ==
    \E id \in Identifiers, ac \in BOOLEAN, S \in UpTo(Settings, MaxSettings) :
        /\ model = id
        /\ async_client = ac
        /\ cache = IF Setting("cache", "") \in S THEN TheCache ELSE None
        /\ mode = IF Setting("mode", "") \in S THEN TheMode ELSE None
        /\ kwargs = [k \in Named(S, "kwarg") |-> KwargValue(k)]
        /\ environ = [v \in Named(S, "env") |-> EnvValue(v)]
        /\ missing = Named(S, "missing")
        /\ pc = "entry"
        /\ provider = None
        /\ model_name = None
        /\ branch = None
        /\ outcome = NoOutcome

\* Lines 113-125: cache into kwargs, then the split of the identifier.
Enter ==
    /\ pc = "entry"
    /\ kwargs' = WithCache(cache, kwargs)
    /\ LET parts == Split1(model, "/")
       IN  IF Len(parts) = 2
           THEN /\ provider' = parts[1]
                /\ model_name' = parts[2]
                /\ pc' = "dispatch"
                /\ outcome' = outcome
           ELSE /\ outcome' = Raise("ConfigurationError", FormatMessage, <<>>, <<>>)
                /\ pc' = "done"
                /\ UNCHANGED <<provider, model_name>>
    /\ UNCHANGED <<model, async_client, cache, mode, environ, missing, branch>>

\* A branch runs to its return or raise.
Finish(r, o) ==
    /\ pc = "dispatch"
    /\ Routine(provider) = r
    /\ branch' = r
    /\ outcome' = o
    /\ pc' = "done"
    /\ UNCHANGED <<model, async_client, cache, mode, kwargs, environ, missing,
                   provider, model_name>>

Do_openai ==
    Finish("openai",
           Branch_openai(model_name, async_client, mode, kwargs, environ, missing, <<>>))
Do_azure_openai ==
    Finish("azure_openai",
           Branch_azure_openai(model_name, async_client, mode, kwargs, environ, missing, <<>>))
Do_anthropic ==
    Finish("anthropic",
           Branch_anthropic(model_name, async_client, mode, kwargs, environ, missing, <<>>))
Do_google ==
    Finish("google",
           Branch_google(model_name, async_client, mode, kwargs, environ, missing, <<>>))
Do_mistral ==
    Finish("mistral",
           Branch_mistral(model_name, async_client, mode, kwargs, environ, missing, <<>>))
Do_cohere ==
    Finish("cohere",
           Branch_cohere(model_name, async_client, mode, kwargs, environ, missing, <<>>))
Do_perplexity ==
    Finish("perplexity",
           Branch_perplexity(model_name, async_client, mode, kwargs, environ, missing, <<>>))
Do_groq ==
    Finish("groq",
           Branch_groq(model_name, async_client, mode, kwargs, environ, missing, <<>>))
Do_writer ==
    Finish("writer",
           Branch_writer(model_name, async_client, mode, kwargs, environ, missing, <<>>))
Do_bedrock ==
    Finish("bedrock",
           Branch_bedrock(model_name, async_client, mode, kwargs, environ, missing, <<>>))
Do_cerebras ==
    Finish("cerebras",
           Branch_cerebras(model_name, async_client, mode, kwargs, environ, missing, <<>>))
Do_fireworks ==
    Finish("fireworks",
           Branch_fireworks(model_name, async_client, mode, kwargs, environ, missing, <<>>))
Do_vertexai ==
    Finish("vertexai",
           Branch_vertexai(model_name, async_client, mode, kwargs, environ, missing, <<>>))
Do_generative_ai ==
    Finish("generative-ai",
           Branch_generative_ai(model_name, async_client, mode, kwargs, environ, missing, <<>>))
Do_ollama ==
    Finish("ollama",
           Branch_ollama(model_name, async_client, mode, kwargs, environ, missing, <<>>))
Do_xai ==
    Finish("xai",
           Branch_xai(model_name, async_client, mode, kwargs, environ, missing, <<>>))
Do_else ==
    Finish("else", Branch_else(provider))

Next ==
    \/ Enter
    \/ Do_openai \/ Do_azure_openai \/ Do_anthropic \/ Do_google
    \/ Do_mistral \/ Do_cohere \/ Do_perplexity \/ Do_groq \/ Do_writer
    \/ Do_bedrock \/ Do_cerebras \/ Do_fireworks \/ Do_vertexai
    \/ Do_generative_ai \/ Do_ollama \/ Do_xai \/ Do_else

Spec == Init /\ [][Next]_vars

-----------------------------------------------------------------------------
(* Properties                                                              *)

Done == pc = "done"
Returned == Done /\ outcome.kind = "return"
Raised(exc) == Done /\ outcome.kind = "raise" /\ outcome.exc = exc
ClientBuilt == Done /\ outcome.client /= NoClient

\* C1: an identifier with no "/", or with an empty provider part or an empty
\* model part around its first "/", raises ConfigurationError with the
\* 'provider/model-name' format message and reaches no provider branch.
C1_MalformedIdentifierRejected ==
    LET i == Find(model, "/")
        malformed == i = 0 \/ i = 1 \/ i = Len(model)
    IN  (Done /\ malformed) =>
            /\ Raised("ConfigurationError")
            /\ outcome.msg = FormatMessage
            /\ branch = None

\* The required credentials: the branch, the keyword and the environment
\* variable that supply it, the field of the native client that receives
\* it, the package the branch imports, and the other required credentials
\* of the same branch.
Credentials ==
    { [branch |-> "azure_openai", kwarg |-> "api_key",
       var |-> "AZURE_OPENAI_API_KEY", field |-> "api_key", pkg |-> "openai"],
      [branch |-> "azure_openai", kwarg |-> "azure_endpoint",
       var |-> "AZURE_OPENAI_ENDPOINT", field |-> "azure_endpoint",
       pkg |-> "openai"],
      [branch |-> "mistral", kwarg |-> "api_key",
       var |-> "MISTRAL_API_KEY", field |-> "api_key", pkg |-> "mistralai"],
      [branch |-> "perplexity", kwarg |-> "api_key",
       var |-> "PERPLEXITY_API_KEY", field |-> "api_key", pkg |-> "openai"],
      [branch |-> "vertexai", kwarg |-> "project",
       var |-> "GOOGLE_CLOUD_PROJECT", field |-> "project",
       pkg |-> "google.genai"] }

Supplied(c) == c.kwarg \in DOMAIN kwargs \/ c.var \in DOMAIN environ

OthersSupplied(c) ==
    \A d \in Credentials : (d.branch = c.branch /\ d /= c) => Supplied(d)

\* C2: the required credential the native client receives is the explicit
\* keyword when the caller gave one, else the environment variable; and a
\* credential given by keyword is resolved: with the branch's other
\* credentials given, and no keyword given twice to the constructor, the
\* client is built.
C2_ExplicitCredentialWins ==
    \A c \in Credentials :
        (Done /\ branch = c.branch /\ c.pkg \notin missing) =>
            /\ ClientBuilt =>
                  /\ c.field \in DOMAIN outcome.client.args
                  /\ outcome.client.args[c.field] =
                        IF c.kwarg \in DOMAIN kwargs THEN kwargs[c.kwarg]
                        ELSE environ[c.var]
            /\ (c.kwarg \in DOMAIN kwargs /\ OthersSupplied(c)
                /\ "vertexai" \notin DOMAIN kwargs) => ClientBuilt

\* C3: with the package importable and a required credential given neither
\* by keyword nor by environment variable (the branch's other credentials
\* given), the call raises ConfigurationError and the message holds the
\* name of the credential's environment variable.
C3_MissingCredentialIsConfigurationError ==
    \A c \in Credentials :
        (Done /\ branch = c.branch /\ c.pkg \notin missing
              /\ ~Supplied(c) /\ OthersSupplied(c)) =>
            /\ Raised("ConfigurationError")
            /\ Contains(outcome.msg, c.var)

\* C4: when the caller gives a mode, the adapter factory of every provider
\* receives that mode.
C4_ModeOverrideForwarded ==
    (Returned /\ mode /= None) =>
        /\ "mode" \in DOMAIN outcome.adapter.args
        /\ outcome.adapter.args["mode"] = mode

\* C5: for ollama without a mode override the adapter receives Mode.TOOLS
\* exactly when the lower-cased model name contains one of the tool-capable
\* family names, and Mode.JSON otherwise ("ollama/llama3.1" gives TOOLS,
\* "ollama/some-unlisted-model" gives JSON); with the openai package
\* importable the call returns, whatever the model name.
C5_OllamaDefaultMode ==
    (Done /\ branch = "ollama" /\ mode = None /\ "openai" \notin missing) =>
        LET lowered == Lower(model_name)
            listed ==
                \E family \in
                    { "llama3.1", "llama3.2", "llama4", "mistral-nemo",
                      "firefunction-v2", "command-r-plus", "qwen2.5",
                      "qwen2.5-coder", "qwen3", "devstral" } :
                    \E i \in 1..(Len(lowered) - Len(family) + 1) :
                        SubSeq(lowered, i, i + Len(family) - 1) = family
        IN  /\ Returned
            /\ outcome.adapter.factory = "from_openai"
            /\ outcome.adapter.args["mode"] =
                    IF listed THEN "Mode.TOOLS" ELSE "Mode.JSON"
            /\ model = "ollama/llama3.1" => outcome.adapter.args["mode"] = "Mode.TOOLS"
            /\ model = "ollama/Qwen3:8B" => outcome.adapter.args["mode"] = "Mode.TOOLS"
            /\ model = "ollama/some-unlisted-model" =>
                    outcome.adapter.args["mode"] = "Mode.JSON"

\* An ollama call whose model name matches a family only after lower-casing
\* has returned with the tool-calling mode.
C5_Witness ==
    /\ Returned /\ branch = "ollama" /\ mode = None
    /\ model_name = "Qwen3:8B"
    /\ outcome.adapter.args["mode"] = "Mode.TOOLS"

\* The configuration of a native genai client that C6 compares.
ClientConfig(o) ==
    [f \in {"vertexai", "project", "location", "api_key"} |->
        Get(o.client.args, f, "<absent>")]

\* C6: a "vertexai/<m>" call emits exactly one DeprecationWarning and
\* otherwise ends as the call "google/<m>" with vertexai=True and the same
\* other arguments and environment does: both return or both raise, with
\* the same native client configuration and the same adapter arguments.
C6_VertexaiActsAsGoogle ==
    (Done /\ branch = "vertexai") =>
        LET g == FromProvider("google/" \o model_name, async_client, cache,
                              mode, Update(kwargs, [vertexai |-> "True"]),
                              environ, missing)
        IN  /\ Len(outcome.warnings) = 1
            /\ outcome.warnings[1].category = "DeprecationWarning"
            /\ outcome.kind = g.kind
            /\ outcome.kind = "return" =>
                  /\ ClientConfig(outcome) = ClientConfig(g)
                  /\ outcome.adapter = g.adapter

BranchPackage(r) ==
    CASE r \in {"openai", "azure_openai", "perplexity", "ollama"} -> "openai"
      [] r = "anthropic" -> "anthropic"
      [] r \in {"google", "vertexai", "generative-ai"} -> "google.genai"
      [] r = "mistral" -> "mistralai"
      [] r = "cohere" -> "cohere"
      [] r = "groq" -> "groq"
      [] r = "writer" -> "writerai"
      [] r = "bedrock" -> "boto3"
      [] r = "cerebras" -> "cerebras"
      [] r = "fireworks" -> "fireworks"
      [] r = "xai" -> "xai_sdk"
      [] OTHER -> ""

\* C8: when the package of the provider's branch is not importable the call
\* raises ConfigurationError with the install command in its message.
C8_MissingPackageIsConfigurationError ==
    (Done /\ branch /= None /\ BranchPackage(branch) \in missing) =>
        /\ Raised("ConfigurationError")
        /\ Contains(outcome.msg, "package is required")
        /\ Contains(outcome.msg, "pip install")

AsyncClasses ==
    { "openai.AsyncOpenAI", "openai.AsyncAzureOpenAI",
      "anthropic.AsyncAnthropic", "cohere.AsyncClient", "groq.AsyncGroq",
      "writerai.AsyncWriter", "cerebras.cloud.sdk.AsyncCerebras",
      "fireworks.client.AsyncFireworks", "xai_sdk.aio.client.Client" }

\* C9: the native client constructed is the SDK's async class exactly when
\* async_client is true.
C9_AsyncClientIffRequested ==
    ClientBuilt => (outcome.client.cls \in AsyncClasses <=> async_client)

\* C10: on a return the adapter factory has received the parsed model
\* name, the cache when one was given, and every keyword option the branch
\* did not hand to the native client.
C10_ModelAndOptionsForwarded ==
    Returned =>
        /\ outcome.adapter.factory /= ""
        /\ "model" \in DOMAIN outcome.adapter.args
        /\ outcome.adapter.args["model"] = model_name
        /\ cache /= None =>
              /\ "cache" \in DOMAIN outcome.adapter.args
              /\ outcome.adapter.args["cache"] = cache
        /\ \A k \in DOMAIN kwargs :
              \/ k \in DOMAIN outcome.client.args
              \/ /\ k \in DOMAIN outcome.adapter.args
                 /\ outcome.adapter.args[k] = kwargs[k]

\* An event of the call that touches the world outside the identifier: an
\* import, a read of os.environ, a native client construction, an adapter
\* factory call, a warning.
IsEffect(e) ==
    \/ Len(e) >= 4 /\ SubSeq(e, 1, 4) \in {"new ", "call", "warn"}
    \/ Len(e) >= 6 /\ SubSeq(e, 1, 6) \in {"import", "getenv"}
    \/ Len(e) >= 5 /\ SubSeq(e, 1, 5) = "from "

ResolvedKeys ==
    {"api_key", "azure_endpoint", "api_version", "base_url", "project",
     "location"}

\* C12: a keyword from which the branch took a credential or endpoint of
\* the native client (the client holds the caller's value under that key)
\* is not among the keyword options the adapter factory receives.
C12_ConsumedKeywordNotForwarded ==
    Returned =>
        \A k \in DOMAIN kwargs \cap ResolvedKeys :
            (k \in DOMAIN outcome.client.args
             /\ outcome.client.args[k] = kwargs[k]) =>
                k \notin DOMAIN outcome.adapter.args

\* The messages of the missing-credential and missing-configuration errors.
MissingConfigurationMessages ==
    { AzureKeyMessage, AzureEndpointMessage, MistralKeyMessage,
      PerplexityKeyMessage, VertexAIProjectMessage }

\* C13: a call that ends by raising a missing-credential or
\* missing-configuration error has constructed no native client and has
\* invoked no adapter factory: neither is recorded in the outcome, and no
\* construction or factory call is among the events before the raise.
C13_ConfigurationCheckedBeforeClient ==
    (Done /\ outcome.kind = "raise"
          /\ outcome.msg \in MissingConfigurationMessages) =>
        /\ outcome.client = NoClient
        /\ outcome.adapter = NoCall
        /\ \A i \in DOMAIN outcome.events :
              SubSeq(outcome.events[i], 1, 4) \notin {"new ", "call"}
        /\ outcome.events[Len(outcome.events)] = "raise " \o outcome.exc

\* A mistral call has raised for its missing key after its imports and its
\* read of the environment.
C13_Witness ==
    /\ Done /\ branch = "mistral" /\ outcome.msg = MistralKeyMessage
    /\ \E i \in DOMAIN outcome.events :
          outcome.events[i] = Getenv("MISTRAL_API_KEY")

====
